---- MODULE Spec2Model ----
(***************************************************************************)
(* A model of the push-based Source protocol of sophia_rs as implemented   *)
(* by JsonLdQuadSource (jsonld/src/parser/source.rs), of the Map           *)
(* combinator MapSource and of the push-to-pull bridge MapSourceIterator   *)
(* (api/src/source/map.rs).                                                *)
(*                                                                         *)
(* A Source is polled with try_for_some_item(callback).  One poll hands    *)
(* some records to the callback and returns Ok(true), Ok(false),           *)
(* Err(SourceError) or Err(SinkError); these four results are the strings  *)
(* "true", "false", "SourceError" and "SinkError" below.                   *)
(***************************************************************************)
EXTENDS Integers, Sequences, FiniteSets, TLC

\* ---------------------------------------------------------------- bounds
MaxLen == 3      \* longest record sequence a source starts with
MaxBurst == 2    \* most records a generic source delivers in one poll
MaxIdle == 1     \* empty more-may-remain polls a generic source may answer
MaxPolls == 5    \* try_for_some_item calls of the direct caller
MaxNext == 6     \* next() calls on the bridge

\* ------------------------------------------------------------ data model
Records == {1, 2}
Transforms == {"shift", "square"}
Errors == {"E1"}
Hints == {"unknown", "exact"}
NoErr == "none"

\* The transform F of MapSource<S, F>: any total function of a record.
Apply(map, r) ==
    CASE map = "shift" -> r + 10
      [] map = "square" -> r * r
      [] OTHER -> r

RECURSIVE SeqsUpTo(_)
SeqsUpTo(n) ==
    IF n = 0 THEN {<<>>}
    ELSE LET shorter == SeqsUpTo(n - 1)
         IN shorter \cup {Append(s, r) : s \in {t \in shorter : Len(t) = n - 1}, r \in Records}

MapSeq(map, s) == [i \in 1..Len(s) |-> Apply(map, s[i])]

\* Result<T, E> entries of the bridge's buffer, and Option<Result<T, E>>.
OkEntry(v) == [tag |-> "Ok", val |-> v, err |-> NoErr]
ErrEntry(e) == [tag |-> "Err", val |-> 0, err |-> e]
NoneEntry == [tag |-> "None", val |-> 0, err |-> NoErr]
OkEntries(vs) == [i \in 1..Len(vs) |-> OkEntry(vs[i])]

\* ---------------------------------------------------------------- sources
\* JsonLdQuadSource::Quads(quads)
QuadsSource(s) ==
    [kind |-> "Quads", quads |-> s, opt |-> NoErr, idle |-> 0, done |-> FALSE, hint |-> "unknown"]
\* JsonLdQuadSource::Err(opt)
ErrSource(o) ==
    [kind |-> "Err", quads |-> <<>>, opt |-> o, idle |-> 0, done |-> FALSE, hint |-> "unknown"]
\* JsonLdQuadSource::Err(Some(err.into()))
from_err(err) == ErrSource(err)
\* Any other implementor of Source: delivers its records in bursts, then
\* reports exhausted or its producer error, and is exhausted afterwards.
\* Its size hint h is "exact" (the number of records left) or "unknown".
BurstSource(s, o, i, h) ==
    [kind |-> "Burst", quads |-> s, opt |-> o, idle |-> i, done |-> FALSE, hint |-> h]

\* What one try_for_some_item call does: the source afterwards, the records
\* handed to the callback in order, the result, and the error it carries.
Outcome(self, given, res, err) == [source |-> self, given |-> given, res |-> res, err |-> err]

\* The callback of one poll is described by j: it fails on its j-th
\* invocation within the poll (j = 0: it does not fail in this poll).

\* as the code, but the callback's error is dropped
JsonLdQuadSource_ignores_sink_error(self, j) ==
    IF self.kind = "Quads"
    THEN IF self.quads # <<>>
         THEN Outcome([self EXCEPT !.quads = Tail(@)], <<Head(self.quads)>>, "true", NoErr)
         ELSE Outcome(self, <<>>, "false", NoErr)
    ELSE IF self.opt # NoErr
         THEN Outcome([self EXCEPT !.opt = NoErr], <<>>, "SourceError", self.opt)
         ELSE Outcome(self, <<>>, "false", NoErr)

\* as the code, but the carried error is read without being taken
JsonLdQuadSource_err_not_taken(self, j) ==
    IF self.kind = "Quads"
    THEN IF self.quads # <<>>
         THEN Outcome([self EXCEPT !.quads = Tail(@)], <<Head(self.quads)>>,
                      IF j = 1 THEN "SinkError" ELSE "true", NoErr)
         ELSE Outcome(self, <<>>, "false", NoErr)
    ELSE IF self.opt # NoErr
         THEN Outcome(self, <<>>, "SourceError", self.opt)
         ELSE Outcome(self, <<>>, "false", NoErr)

\* as the code, but a delivered record is answered with Ok(false)
JsonLdQuadSource_false_on_delivery(self, j) ==
    IF self.kind = "Quads"
    THEN IF self.quads # <<>>
         THEN Outcome([self EXCEPT !.quads = Tail(@)], <<Head(self.quads)>>,
                      IF j = 1 THEN "SinkError" ELSE "false", NoErr)
         ELSE Outcome(self, <<>>, "false", NoErr)
    ELSE IF self.opt # NoErr
         THEN Outcome([self EXCEPT !.opt = NoErr], <<>>, "SourceError", self.opt)
         ELSE Outcome(self, <<>>, "false", NoErr)

\* as the code, but the last record is dropped instead of delivered
JsonLdQuadSource_skips_last(self, j) ==
    IF self.kind = "Quads"
    THEN IF Len(self.quads) > 1
         THEN Outcome([self EXCEPT !.quads = Tail(@)], <<Head(self.quads)>>,
                      IF j = 1 THEN "SinkError" ELSE "true", NoErr)
         ELSE Outcome([self EXCEPT !.quads = <<>>], <<>>, "false", NoErr)
    ELSE IF self.opt # NoErr
         THEN Outcome([self EXCEPT !.opt = NoErr], <<>>, "SourceError", self.opt)
         ELSE Outcome(self, <<>>, "false", NoErr)

\* as the code, but the carried error is dropped instead of returned
JsonLdQuadSource_err_lost(self, j) ==
    IF self.kind = "Quads"
    THEN IF self.quads # <<>>
         THEN Outcome([self EXCEPT !.quads = Tail(@)], <<Head(self.quads)>>,
                      IF j = 1 THEN "SinkError" ELSE "true", NoErr)
         ELSE Outcome(self, <<>>, "false", NoErr)
    ELSE Outcome([self EXCEPT !.opt = NoErr], <<>>, "false", NoErr)

\* as the code, but the last record is answered with Ok(false)
JsonLdQuadSource_false_with_last(self, j) ==
    IF self.kind = "Quads"
    THEN IF self.quads # <<>>
         THEN Outcome([self EXCEPT !.quads = Tail(@)], <<Head(self.quads)>>,
                      IF j = 1 THEN "SinkError"
                      ELSE IF Len(self.quads) > 1 THEN "true" ELSE "false", NoErr)
         ELSE Outcome(self, <<>>, "false", NoErr)
    ELSE IF self.opt # NoErr
         THEN Outcome([self EXCEPT !.opt = NoErr], <<>>, "SourceError", self.opt)
         ELSE Outcome(self, <<>>, "false", NoErr)

JsonLdQuadSource_try_for_some_item(self, j) ==
    IF self.kind = "Quads"
    THEN IF self.quads # <<>>                       \* quads.next()
         THEN Outcome([self EXCEPT !.quads = Tail(@)], <<Head(self.quads)>>,
                      IF j = 1 THEN "SinkError" ELSE "true", NoErr)
         ELSE Outcome(self, <<>>, "false", NoErr)
    ELSE IF self.opt # NoErr                        \* opt.take()
         THEN Outcome([self EXCEPT !.opt = NoErr], <<>>, "SourceError", self.opt)
         ELSE Outcome(self, <<>>, "false", NoErr)

\* A generic Source delivering the next m records; fin: it reports its end
\* in this poll when no record is left.
BurstSource_try_for_some_item(self, m, fin, j) ==
    IF self.done THEN Outcome(self, <<>>, "false", NoErr)
    ELSE IF j \in 1..m
    THEN Outcome([self EXCEPT !.quads = SubSeq(@, j + 1, Len(@)), !.done = TRUE],
                 SubSeq(self.quads, 1, j), "SinkError", NoErr)
    ELSE IF fin /\ m = Len(self.quads)
    THEN Outcome([self EXCEPT !.quads = <<>>, !.opt = NoErr, !.done = TRUE],
                 self.quads,
                 IF self.opt # NoErr THEN "SourceError" ELSE "false", self.opt)
    ELSE Outcome([self EXCEPT !.quads = SubSeq(@, m + 1, Len(@)),
                              !.idle = IF m = 0 THEN @ - 1 ELSE @],
                 SubSeq(self.quads, 1, m), "true", NoErr)

\* The choices (m, fin) a source offers in its current state.
ChoiceOk(self, m, fin) ==
    IF self.kind = "Burst" /\ ~self.done
    THEN /\ m <= Len(self.quads)
         /\ m <= MaxBurst
         /\ fin => m = Len(self.quads)
         /\ (m = 0 /\ ~fin) => self.idle > 0
    ELSE m = 0 /\ fin

Source_try_for_some_item(self, m, fin, j) ==
    IF self.kind = "Burst"
    THEN BurstSource_try_for_some_item(self, m, fin, j)
    ELSE JsonLdQuadSource_try_for_some_item(self, j)

\* Source::for_some_item: try_for_some_item with a callback that cannot fail.
for_some_item(self, m, fin) == Source_try_for_some_item(self, m, fin, 0)

\* ------------------------------------------------------------- size hints
\* (usize, Option<usize>): lower bound, and upper bound when some
SizeHint(lo, some, hi) == [lo |-> lo, some |-> some, hi |-> hi]

\* Source::size_hint_items as a Source that does not override it answers:
\* "unknown", (0, None)
Default_size_hint_items == SizeHint(0, FALSE, 0)

\* A generic Source whose hint is exact answers with its records left.
BurstSource_size_hint_items(self) ==
    IF self.hint = "exact"
    THEN SizeHint(Len(self.quads), TRUE, Len(self.quads))
    ELSE Default_size_hint_items

\* JsonLdQuadSource implements try_for_some_item only.
Source_size_hint_items(self) ==
    IF self.kind = "Burst"
    THEN BurstSource_size_hint_items(self)
    ELSE Default_size_hint_items

\* ---------------------------------------------------------- Map combinator
\* `mapped` lists the records the transform was applied to, `given` the
\* values that reached the caller's callback.
MapOutcome(r, mapped, given) ==
    [source |-> r.source, mapped |-> mapped, given |-> given, res |-> r.res]

\* as the code, but the first record of a poll is not forwarded
MapSource_drops_first(self, f, m, fin, j) ==
    LET r == Source_try_for_some_item(self, m, fin, j)
    IN MapOutcome(r, r.given, IF r.given = <<>> THEN <<>> ELSE Tail(MapSeq(f, r.given)))

\* as the code, but the transform runs twice on every record
MapSource_maps_twice(self, f, m, fin, j) ==
    LET r == Source_try_for_some_item(self, m, fin, j)
        twice == [i \in 1..(2 * Len(r.given)) |-> r.given[(i + 1) \div 2]]
    IN MapOutcome(r, twice, MapSeq(f, r.given))

\* self.source.try_for_some_item(|t| f((map)(t)))
MapSource_try_for_some_item(self, f, m, fin, j) ==
    LET r == Source_try_for_some_item(self, m, fin, j)
    IN MapOutcome(r, r.given, MapSeq(f, r.given))

\* as the code, but size_hint_items is not overridden
MapSource_size_hint_items_default(self) == Default_size_hint_items

\* self.source.size_hint_items()
MapSource_size_hint_items(self) == Source_size_hint_items(self)

\* A caller polling the source itself, without the combinator.
Direct_try_for_some_item(self, m, fin, j) ==
    LET r == Source_try_for_some_item(self, m, fin, j)
    IN MapOutcome(r, <<>>, r.given)

\* ------------------------------------------------------------------ state
VARIABLES
    source,      \* the wrapped Source
    source0,     \* the Source as constructed (never changes)
    map,         \* the transform of MapSource, or "direct": no combinator
    mode,        \* "drive": for_each loop, "poll": direct caller, "pull": bridge
    failAt,      \* the consumer callback fails on its failAt-th record (0: never)
    seen,        \* the values the consumer callback was invoked with
    calls,       \* per try_for_some_item call of the push caller: result, records given
    driveDone,   \* the for_each loop has returned
    polls,       \* number of try_for_some_item calls made on the Source
    mapLog,      \* the records the transform was applied to, in order
    buffer,      \* MapSourceIterator.buffer
    lbuf,        \* next(): the local `buffer`
    remaining,   \* next(): the local `remaining`
    pc,          \* "idle": between next() calls, "loop": inside next()
    out,         \* what next() returned, in order
    produced,    \* what the polls of next() produced, in the order of production
    latePolls,   \* polls made after next() had returned None or an error
    nextCalls,   \* number of next() calls started
    bufAtEnter,  \* self.buffer as the latest next() found it
    pollsAtEnter,\* the value of polls when the latest next() started
    lastBurst,   \* what the latest poll of next() produced
    lastRes      \* the result of the latest poll of next() ("none": no poll yet)

vars == <<source, source0, map, mode, failAt, seen, calls, driveDone, polls,
          mapLog, buffer, lbuf, remaining, pc, out, produced, latePolls, nextCalls,
          bufAtEnter, pollsAtEnter, lastBurst, lastRes>>

pushVars == <<seen, calls, driveDone>>
pullVars == <<buffer, lbuf, remaining, pc, out, produced, latePolls, nextCalls,
              bufAtEnter, pollsAtEnter, lastBurst, lastRes>>
setupVars == <<source0, map, mode, failAt>>

Sources ==
    {QuadsSource(s) : s \in SeqsUpTo(MaxLen)}
    \cup {from_err(e) : e \in Errors}
    \cup {BurstSource(s, o, i, h) : s \in SeqsUpTo(MaxLen), o \in Errors \cup {NoErr},
                                   i \in 0..MaxIdle, h \in Hints}

Init ==
    /\ source \in Sources
    /\ source0 = source
    /\ mode \in {"drive", "poll", "pull"}
    /\ map \in IF mode = "pull" THEN Transforms ELSE Transforms \cup {"direct"}
    /\ failAt \in IF mode = "pull" THEN {0} ELSE 0..MaxLen
    /\ seen = <<>>
    /\ calls = <<>>
    /\ driveDone = FALSE
    /\ polls = 0
    /\ mapLog = <<>>
    /\ buffer = <<>>          \* into_iter: VecDeque::new()
    /\ lbuf = <<>>
    /\ remaining = FALSE
    /\ pc = "idle"
    /\ out = <<>>
    /\ produced = <<>>
    /\ latePolls = 0
    /\ nextCalls = 0
    /\ bufAtEnter = <<>>
    /\ pollsAtEnter = 0
    /\ lastBurst = <<>>
    /\ lastRes = "none"

\* --------------------------------------------------------- push consumers
\* Where the consumer callback fails within the poll that starts now.
FailIndex == IF failAt > Len(seen) THEN failAt - Len(seen) ELSE 0

Poll(self, m, fin, j) ==
    IF map = "direct"
    THEN Direct_try_for_some_item(self, m, fin, j)
    ELSE MapSource_try_for_some_item(self, map, m, fin, j)

\* One try_for_some_item call by the push caller.
PushPoll(m, fin) ==
    /\ ChoiceOk(source, m, fin)
    /\ LET r == Poll(source, m, fin, FailIndex)
       IN /\ source' = r.source
          /\ seen' = seen \o r.given
          /\ mapLog' = mapLog \o r.mapped
          /\ calls' = Append(calls, [res |-> r.res, n |-> Len(r.given)])
          /\ driveDone' = (mode = "drive" /\ r.res # "true")
    /\ polls' = polls + 1
    /\ UNCHANGED <<setupVars, pullVars>>

\* One iteration of the drive-to-completion loop:
\* while self.try_for_some_item(&mut f)? {}
ForEachStep ==
    /\ mode = "drive"
    /\ ~driveDone
    /\ \E m \in 0..MaxBurst, fin \in BOOLEAN : PushPoll(m, fin)

\* A caller that polls the Source itself, also after a terminal result.
TryForSomeItem ==
    /\ mode = "poll"
    /\ polls < MaxPolls
    /\ \E m \in 0..MaxBurst, fin \in BOOLEAN : PushPoll(m, fin)

\* ----------------------------------------------------- MapSourceIterator
IsTerminal(e) == e.tag \in {"None", "Err"}
Terminated == \E i \in DOMAIN out : IsTerminal(out[i])

\* as the code, but the buffer is not looked at
LoopCond_ignores_buffer(b, rem) == rem

\* as the code, but the loop goes on until two entries are buffered
LoopCond_until_two(b, rem) == Len(b) < 2 /\ rem

\* while buffer.is_empty() && remaining
LoopCond(b, rem) == b = <<>> /\ rem

\* as the code, but a poll that delivered nothing ends the loop
RemainingAfter_needs_records(r) == r.res = "true" /\ r.given # <<>>

\* match resb: Ok(b) => remaining = b, Err(err) => remaining = false
RemainingAfter(r) == r.res = "true"

\* What the Source produced in one poll, after the transform: its records
\* in the order delivered, then its error if it reported one.
Burst(f, r) ==
    OkEntries(MapSeq(f, r.given))
    \o (IF r.res = "SourceError" THEN <<ErrEntry(r.err)>> ELSE <<>>)

\* as the code, but an error replaces what the poll had pushed
Pushed_error_only(f, r) ==
    IF r.res = "SourceError" THEN <<ErrEntry(r.err)>> ELSE OkEntries(MapSeq(f, r.given))

\* as the code, but the error is pushed at the front
Pushed_error_first(f, r) ==
    (IF r.res = "SourceError" THEN <<ErrEntry(r.err)>> ELSE <<>>)
    \o OkEntries(MapSeq(f, r.given))

\* What one loop iteration pushes to the back of the buffer:
\* buffer.push_back(Ok((self.map)(i))) per record, then
\* buffer.push_back(Err(err)) when the poll returned Err(err)
Pushed(f, r) ==
    OkEntries(MapSeq(f, r.given))
    \o (IF r.res = "SourceError" THEN <<ErrEntry(r.err)>> ELSE <<>>)

\* as the code, but the front entry is returned without being removed
AfterPopFront_kept(b) == b

\* self.buffer.pop_front(): the value returned and the buffer left
PopFront(b) == IF b = <<>> THEN NoneEntry ELSE Head(b)
AfterPopFront(b) == IF b = <<>> THEN <<>> ELSE Tail(b)

\* entry of next(): remaining = true, the buffers are swapped
NextEnter ==
    /\ mode = "pull"
    /\ pc = "idle"
    /\ nextCalls < MaxNext
    /\ nextCalls' = nextCalls + 1
    /\ remaining' = TRUE
    /\ lbuf' = buffer
    /\ buffer' = <<>>
    /\ pc' = "loop"
    /\ bufAtEnter' = buffer
    /\ pollsAtEnter' = polls
    /\ UNCHANGED <<source, setupVars, pushVars, polls, mapLog, out, produced, latePolls,
                   lastBurst, lastRes>>

\* one iteration of the while loop
NextLoop ==
    /\ pc = "loop"
    /\ LoopCond(lbuf, remaining)
    /\ \E m \in 0..MaxBurst, fin \in BOOLEAN :
        /\ ChoiceOk(source, m, fin)
        /\ LET r == for_some_item(source, m, fin)
           IN /\ source' = r.source
              /\ mapLog' = mapLog \o r.given
              /\ lbuf' = lbuf \o Pushed(map, r)
              /\ produced' = produced \o Burst(map, r)
              /\ lastBurst' = Burst(map, r)
              /\ lastRes' = r.res
              /\ remaining' = RemainingAfter(r)
    /\ polls' = polls + 1
    /\ latePolls' = IF Terminated THEN latePolls + 1 ELSE latePolls
    /\ UNCHANGED <<setupVars, pushVars, buffer, pc, out, nextCalls, bufAtEnter, pollsAtEnter>>

\* the loop has ended: swap back and self.buffer.pop_front()
NextReturn ==
    /\ pc = "loop"
    /\ ~LoopCond(lbuf, remaining)
    /\ buffer' = AfterPopFront(lbuf)
    /\ out' = Append(out, PopFront(lbuf))
    /\ lbuf' = <<>>
    /\ pc' = "idle"
    /\ UNCHANGED <<source, setupVars, pushVars, polls, mapLog, remaining, produced,
                   latePolls, nextCalls, bufAtEnter, pollsAtEnter, lastBurst, lastRes>>

\* fn size_hint(&self): self.source.size_hint_items()
MapSourceIterator_size_hint(self) == Source_size_hint_items(self)

Next == ForEachStep \/ TryForSomeItem \/ NextEnter \/ NextLoop \/ NextReturn

Spec == Init /\ [][Next]_vars

\* next() runs to completion once entered: the execution is synchronous.
FairSpec == Spec /\ WF_vars(NextLoop) /\ WF_vars(NextReturn)

\* ------------------------------------------------------------ properties
IsPrefix(s, t) == Len(s) <= Len(t) /\ SubSeq(t, 1, Len(s)) = s

\* The records of the source as constructed, after the transform.
Expected == MapSeq(map, source0.quads)

\* What next() returned, end-of-sequence answers left out.
Returned == SelectSeq(out, LAMBDA e : e.tag # "None")

\* The batch producer JsonLdQuadSource polled by a push caller.
BatchPush == mode # "pull" /\ source0.kind \in {"Quads", "Err"}

\* C1: for every record sequence S and transform f, driving MapSource over S
\* by push callback delivers exactly [f(s) : s in S] in order, and the i-th
\* next() of the bridge returns Ok(f(S[i])) for i <= Len(S) and None after.
C1_MapYieldsTransformedSequence ==
    (map # "direct" /\ source0.kind # "Err" /\ source0.opt = NoErr) =>
        /\ (mode = "drive" /\ failAt = 0) =>
              /\ IsPrefix(seen, Expected)
              /\ driveDone => seen = Expected
        /\ mode = "pull" =>
              \A i \in DOMAIN out :
                  out[i] = IF i <= Len(Expected) THEN OkEntry(Expected[i]) ELSE NoneEntry

C1_Witness ==
    /\ mode = "pull"
    /\ source0.opt = NoErr
    /\ Len(source0.quads) >= 2
    /\ source0.quads[1] # source0.quads[2]
    /\ Len(out) = Len(source0.quads) + 1
    /\ out[Len(out)] = NoneEntry

\* C2: once next() has returned None or an error, no later next() polls the
\* wrapped Source again.
C2_NoPollAfterTermination == latePolls = 0

\* C3: among the answers of next(), everything that follows an error or a
\* None is None: at most one error, and no record after the end.
C3_TerminalAnswersStay ==
    mode = "pull" =>
        \A i, k \in DOMAIN out : (i < k /\ IsTerminal(out[i])) => out[k] = NoneEntry

C3_Witness ==
    /\ Len(out) >= 4
    /\ out[1].tag = "Ok"
    /\ out[2].tag = "Err"
    /\ out[4] = NoneEntry

\* C4: a source that raises its producer error after k records, however the
\* records are split into bursts, is seen through the bridge as the k
\* transformed records in order, then the error once, then None only.
C4_RecordsThenOneProducerError ==
    (mode = "pull" /\ source0.opt # NoErr) =>
        LET full == OkEntries(Expected) \o <<ErrEntry(source0.opt)>>
        IN \A i \in DOMAIN out :
               out[i] = IF i <= Len(full) THEN full[i] ELSE NoneEntry

\* two records and the error came out of one poll
C4_Witness ==
    /\ mode = "pull"
    /\ Len(source0.quads) = 2
    /\ Len(out) = 4
    /\ out[3].tag = "Err"
    /\ polls = 2

\* C5: when the callback fails on the (k+1)-th record of a batch producer,
\* the drive sees k polls answered true and then one SinkError, the callback
\* has been invoked with the first k+1 records only, and no poll follows.
C5_ConsumerErrorStopsDrive ==
    (mode = "drive" /\ source0.kind = "Quads" /\ failAt \in 1..Len(source0.quads)) =>
        /\ IsPrefix(seen, Expected)
        /\ Len(seen) <= failAt
        /\ Len(calls) <= failAt
        /\ polls = Len(calls)
        /\ \A i \in DOMAIN calls :
               calls[i].res = IF i < failAt THEN "true" ELSE "SinkError"
        /\ driveDone => Len(calls) = failAt /\ Len(seen) = failAt

C5_Witness ==
    /\ mode = "drive"
    /\ source0.kind = "Quads"
    /\ map # "direct"
    /\ Len(source0.quads) = 3
    /\ failAt = 2
    /\ driveDone

\* C6: a producer made by from_err answers the first poll with its producer
\* error, every later poll with exhausted, and never invokes the callback.
C6_FromErrYieldsErrorOnce ==
    (mode # "pull" /\ source0.kind = "Err") =>
        /\ seen = <<>>
        /\ \A i \in DOMAIN calls :
               /\ calls[i].res = IF i = 1 THEN "SourceError" ELSE "false"
               /\ calls[i].n = 0

C6_Witness ==
    /\ mode = "poll"
    /\ source0.kind = "Err"
    /\ Len(calls) >= 3

\* C7: after a poll of the batch producer has answered exhausted or producer
\* error, no later poll invokes the callback.
C7_NoRecordAfterEnd ==
    BatchPush =>
        \A i, k \in DOMAIN calls :
            (i < k /\ calls[i].res \in {"false", "SourceError"}) => calls[k].n = 0

C7_Witness ==
    /\ mode = "poll"
    /\ source0.kind = "Quads"
    /\ Len(source0.quads) >= 1
    /\ Len(calls) >= Len(source0.quads) + 3

\* C8: after a poll of the batch producer has answered with a consumer
\* error, no later poll invokes the callback.
C8_NoRecordAfterConsumerError ==
    BatchPush =>
        \A i, k \in DOMAIN calls :
            (i < k /\ calls[i].res = "SinkError") => calls[k].n = 0

\* C9: a ready batch producer holding S, polled with a callback that never
\* fails, hands the records of S to the callback in order, each once, one or
\* more per poll until it answers exhausted, and answers exhausted only when
\* all of S has been handed over.
C9_ReadyDeliversAllInOrder ==
    (mode # "pull" /\ source0.kind = "Quads" /\ failAt = 0) =>
        /\ IsPrefix(seen, Expected)
        /\ \A i \in DOMAIN calls :
               /\ calls[i].res \in {"true", "false"}
               /\ calls[i].res = "true" => calls[i].n >= 1
        /\ (\E i \in DOMAIN calls : calls[i].res = "false") => seen = Expected

C9_Witness ==
    /\ mode = "poll"
    /\ source0.kind = "Quads"
    /\ failAt = 0
    /\ Len(source0.quads) = 3
    /\ source0.quads[1] # source0.quads[2]
    /\ Len(calls) = 4
    /\ calls[4].res = "false"

\* C10: between next() calls the buffer holds exactly the entries produced
\* and not yet returned, in production order, and an error entry can only be
\* its last entry (so there is at most one).
C10_BufferIsPendingSuffix ==
    (mode = "pull" /\ pc = "idle") =>
        /\ Returned \o buffer = produced
        /\ \A i \in DOMAIN buffer : buffer[i].tag = "Err" => i = Len(buffer)

C10_Witness ==
    /\ pc = "idle"
    /\ Len(buffer) = 2
    /\ buffer[1].tag = "Ok"
    /\ buffer[2].tag = "Err"

\* The values of the Ok entries of a sequence of entries, in order.
OkVals(s) ==
    LET oks == SelectSeq(s, LAMBDA e : e.tag = "Ok")
    IN [i \in 1..Len(oks) |-> oks[i].val]

\* C11: in every state, before and after any number of polls, the size hint
\* of the mapped Source is the size hint of the wrapped Source: same lower
\* bound, same upper bound.
C11_MapSizeHintIsSourceSizeHint ==
    map # "direct" => MapSource_size_hint_items(source) = Source_size_hint_items(source)

C11_Witness ==
    /\ mode = "poll"
    /\ map # "direct"
    /\ polls >= 1
    /\ Len(source.quads) >= 1
    /\ MapSource_size_hint_items(source) = SizeHint(Len(source.quads), TRUE, Len(source.quads))

\* C12: a next() that finds the buffer non-empty polls nothing, returns the
\* front entry and leaves the rest; so the entries of one burst come out of
\* consecutive next() calls in order, and between calls the buffer is what
\* is left of the latest burst.
C12_BufferedEntryReturnedWithoutPoll ==
    mode = "pull" =>
        /\ bufAtEnter # <<>> => polls = pollsAtEnter
        /\ (pc = "idle" /\ bufAtEnter # <<>>) =>
              /\ out[Len(out)] = Head(bufAtEnter)
              /\ buffer = Tail(bufAtEnter)
        /\ pc = "idle" =>
              LET k == Len(lastBurst) - Len(buffer)
              IN /\ k >= 0
                 /\ buffer = SubSeq(lastBurst, k + 1, Len(lastBurst))
                 /\ k <= Len(Returned)
                 /\ SubSeq(Returned, Len(Returned) - k + 1, Len(Returned))
                        = SubSeq(lastBurst, 1, k)

\* a burst of two records, the second one returned from the buffer
C12_Witness ==
    /\ pc = "idle"
    /\ Len(lastBurst) = 2
    /\ lastRes = "true"
    /\ bufAtEnter # <<>>
    /\ buffer = <<>>
    /\ polls = 1

\* C13: neither self.buffer nor the local buffer of next() ever holds more
\* entries than the latest single poll produced (its records, plus its
\* error if it reported one).
C13_BufferBoundedByOneBurst ==
    mode = "pull" =>
        /\ Len(buffer) <= Len(lastBurst)
        /\ Len(lbuf) <= Len(lastBurst)

\* a stream of three records of which a burst of two is buffered
C13_Witness ==
    /\ pc = "loop"
    /\ Len(source0.quads) = 3
    /\ Len(lbuf) = 2
    /\ Len(source.quads) = 1

\* C14: the transform has been applied to exactly the records the wrapped
\* Source has handed over so far, once each and in that order, and what the
\* consumer got (by callback, or as Ok entries returned or buffered by the
\* bridge) is the transform's results in that order.
C14_TransformOncePerRecord ==
    map # "direct" =>
        /\ mapLog \o source.quads = source0.quads
        /\ mode # "pull" => seen = MapSeq(map, mapLog)
        /\ mode = "pull" => OkVals(Returned \o buffer \o lbuf) = MapSeq(map, mapLog)

\* two records mapped in one poll, both returned, the second from the buffer
C14_Witness ==
    /\ mode = "pull"
    /\ Len(mapLog) = 2
    /\ mapLog[1] # mapLog[2]
    /\ polls = 1
    /\ Len(out) = 2
    /\ out[2].tag = "Ok"

\* C15: pulling from a producer made by from_err, the first next() returns
\* the carried error and every later next() returns None; the transform is
\* never applied.
C15_CarriedErrorFirstThenNone ==
    (mode = "pull" /\ source0.kind = "Err") =>
        /\ mapLog = <<>>
        /\ \A i \in DOMAIN out :
               out[i] = IF i = 1 THEN ErrEntry(source0.opt) ELSE NoneEntry

C15_Witness ==
    /\ mode = "pull"
    /\ source0.kind = "Err"
    /\ Len(out) >= 3

\* C16: next() answers None only after a poll of its own that reported
\* exhausted, it goes on polling after an empty poll that reported
\* more-may-remain, and every next() that has started returns.
C16_Polling ==
    mode = "pull" =>
        /\ (pc = "idle" /\ out # <<>> /\ out[Len(out)] = NoneEntry) =>
              /\ lastRes = "false"
              /\ polls > pollsAtEnter
        /\ (pc = "loop" /\ lbuf = <<>> /\ polls > pollsAtEnter /\ lastRes = "true") =>
              remaining

C16_NextPollsUntilResultAndReturns ==
    /\ []C16_Polling
    /\ (pc = "loop") ~> (pc = "idle")

\* a next() that returned a record after an empty more-may-remain poll
C16_Witness ==
    /\ pc = "idle"
    /\ out # <<>>
    /\ out[Len(out)].tag = "Ok"
    /\ bufAtEnter = <<>>
    /\ polls >= pollsAtEnter + 2

\* C17: a ready batch producer hands over at most one record per poll; with
\* a callback that never fails, its first n polls (n records) each hand over
\* one record and answer true, the last record included, and every later
\* poll hands over nothing and answers false.
C17_OneRecordPerPollThenFalse ==
    (mode # "pull" /\ source0.kind = "Quads") =>
        /\ \A i \in DOMAIN calls : calls[i].n <= 1
        /\ failAt = 0 =>
              \A i \in DOMAIN calls :
                  IF i <= Len(source0.quads)
                  THEN calls[i].n = 1 /\ calls[i].res = "true"
                  ELSE calls[i].n = 0 /\ calls[i].res = "false"

C17_Witness ==
    /\ mode = "poll"
    /\ source0.kind = "Quads"
    /\ failAt = 0
    /\ Len(source0.quads) = 2
    /\ Len(calls) = 3
    /\ calls[2].res = "true"
    /\ calls[3].res = "false"

\* C18: between next() calls, the number of items next() will still return
\* (the buffered entries plus the records the Source has left) is at least
\* the lower bound of the bridge's size_hint and, when it reports an upper
\* bound, at most that upper bound.
C18_BridgeSizeHintValid ==
    (mode = "pull" /\ pc = "idle") =>
        LET h == MapSourceIterator_size_hint(source)
            pending == Len(buffer) + Len(source.quads)
        IN /\ h.lo <= pending
           /\ h.some => pending <= h.hi

====
